---- MODULE Spec2Model ----
(***************************************************************************)
(* Frame-resource ring of CastleApp (CastleApp.cpp): the host thread runs  *)
(* Update then Draw once per frame, the GPU consumes the command queue     *)
(* asynchronously and reports progress through the fence.                  *)
(*                                                                         *)
(* Numbers that are floats in the source are fixed-point integers in       *)
(* thousandths (1.0f is One).  A 4x4 matrix is the sequence of its 16        *)
(* elements, row by row, as XMFLOAT4X4 lays them out in memory.            *)
(***************************************************************************)
EXTENDS Integers, Sequences, FiniteSets, TLC

\* const int gNumFrameResources = 3;
gNumFrameResources == 3

\* ---------------------------------------------------------------- bounds
\* Frames (Update/Draw pairs) the host starts in a behaviour.
MaxFrames == 4
\* Largest fence value already used by the start-up flushes.
MaxInitFence == 1
\* Rows and columns of the grid that stands for the 128 x 128 wave grid.
GridSize == 4
\* Simulation steps of a wave field after which it is observed no further.
MaxWaveSteps == 8
\* Largest height from which a wave field is stepped further (15.0).
HeightCap == 15000

\* ------------------------------------------------------------ fixed point
\* 1.0f
One == 1000
\* 0.1f * dt and 0.02f * dt for one time quantum of 0.05 s
TuRate == 5
TvRate == 1
\* gt.DeltaTime() of one time quantum, 0.05 s: one or two wave steps of 0.03 s
DtQuantum == 50

Idx4 == 0..3
Cells == 1..(4 * 4)
Row(k) == (k - 1) \div 4
Col(k) == (k - 1) % 4

\* XMFLOAT4X4::operator()(row, column)
At(M, r, c) == M[4 * r + c + 1]

\* MathHelper::Identity4x4()
Identity4x4 == [k \in Cells |-> LET r == Row(k) c == Col(k) IN IF r = c THEN One ELSE 0]

\* XMMatrixTranspose
XMMatrixTranspose(M) == [k \in Cells |-> LET r == Row(k) c == Col(k) IN At(M, c, r)]

\* XMMatrixMultiply / operator*
XMMatrixMultiply(A, B) ==
    [k \in Cells |-> LET r == Row(k) c == Col(k) IN
        (At(A, r, 0) * At(B, 0, c) + At(A, r, 1) * At(B, 1, c)
         + At(A, r, 2) * At(B, 2, c) + At(A, r, 3) * At(B, 3, c)) \div One]

XMMatrixScaling(sx, sy, sz) ==
    [k \in Cells |-> LET r == Row(k) c == Col(k) IN
        IF r # c THEN 0
        ELSE IF r = 0 THEN sx ELSE IF r = 1 THEN sy ELSE IF r = 2 THEN sz ELSE One]

XMMatrixTranslation(tx, ty, tz) ==
    [k \in Cells |-> LET r == Row(k) c == Col(k) IN
        IF r = c THEN One
        ELSE IF r = 3 THEN (IF c = 0 THEN tx ELSE IF c = 1 THEN ty ELSE tz)
        ELSE 0]

\* XMMatrixRotationX(angle), given the angle's cosine and sine
XMMatrixRotationX(cs, sn) ==
    [k \in Cells |-> LET r == Row(k) c == Col(k) IN
        IF r = 1 /\ c = 1 THEN cs
        ELSE IF r = 1 /\ c = 2 THEN sn
        ELSE IF r = 2 /\ c = 1 THEN 0 - sn
        ELSE IF r = 2 /\ c = 2 THEN cs
        ELSE IF r = c THEN One ELSE 0]

\* XMMatrixRotationY(angle), given the angle's cosine and sine
XMMatrixRotationY(cs, sn) ==
    [k \in Cells |-> LET r == Row(k) c == Col(k) IN
        IF r = 0 /\ c = 0 THEN cs
        ELSE IF r = 0 /\ c = 2 THEN 0 - sn
        ELSE IF r = 2 /\ c = 0 THEN sn
        ELSE IF r = 2 /\ c = 2 THEN cs
        ELSE IF r = c THEN One ELSE 0]

\* ------------------------------------------------------------- materials
\* The value a new RenderItem / Material starts its dirty count with.
InitNumFramesDirty == gNumFrameResources

MaterialNames ==
    {"grass", "brick1", "brick2", "brick3", "ice", "checkboard", "water",
     "wood", "treeSprites"}

\* BuildMaterials: MatCBIndex, DiffuseAlbedo, FresnelR0, Roughness
MatCBIndex ==
    [grass |-> 0, brick1 |-> 1, brick2 |-> 2, brick3 |-> 3, ice |-> 4,
     checkboard |-> 5, water |-> 6, wood |-> 7, treeSprites |-> 8]

MatDiffuseAlbedo ==
    [n \in MaterialNames |->
        IF n = "water" THEN <<One, One, One, 500>> ELSE <<One, One, One, One>>]

MatFresnelR0 ==
    [n \in MaterialNames |->
        IF n = "water" THEN <<100, 100, 100>> ELSE <<10, 10, 10>>]

MatRoughness ==
    [grass |-> 125, brick1 |-> 125, brick2 |-> 225, brick3 |-> 325, ice |-> 15,
     checkboard |-> 325, water |-> 0, wood |-> 325, treeSprites |-> 125]

BuildMaterials ==
    [n \in MaterialNames |->
        [MatCBIndex     |-> MatCBIndex[n],
         DiffuseAlbedo  |-> MatDiffuseAlbedo[n],
         FresnelR0      |-> MatFresnelR0[n],
         Roughness      |-> MatRoughness[n]]]

\* Material::MatTransform and Material::NumFramesDirty of a new Material
NewMaterialState ==
    [MatTransform |-> Identity4x4, NumFramesDirty |-> InitNumFramesDirty]

\* ---------------------------------------------------------- render items
RItem(world, tex, mat) == [World |-> world, TexTransform |-> tex, Mat |-> mat]

TowerDx == <<7000, 7000, -7000, -7000>>
TowerDz == <<7000, -7000, -7000, 7000>>
WallOfset == <<-4500, -2500, 2500, 4500>>

TowerRitems(i) ==
    << RItem(XMMatrixMultiply(XMMatrixScaling(2000, 2000, 2000),
                              XMMatrixTranslation(TowerDx[i], 500, TowerDz[i])),
             Identity4x4, "brick1"),
       RItem(XMMatrixMultiply(XMMatrixScaling(2000, 2000, 2000),
                              XMMatrixTranslation(TowerDx[i], 3700, TowerDz[i])),
             Identity4x4, "brick3"),
       RItem(XMMatrixTranslation(TowerDx[i], 4500, TowerDz[i]), Identity4x4, "ice") >>

WallTex == XMMatrixScaling(2500, 500, One)

WallRitems ==
    << RItem(XMMatrixMultiply(XMMatrixScaling(13000, 3000, 1500),
                              XMMatrixTranslation(0, 1000, 7000)),
             WallTex, "brick2"),
       RItem(XMMatrixMultiply(XMMatrixScaling(13000, 3000, 1500),
                              XMMatrixTranslation(0, 1000, -7000)),
             WallTex, "brick2"),
       RItem(XMMatrixMultiply(
                 XMMatrixMultiply(XMMatrixScaling(13000, 3000, 1500),
                                  XMMatrixRotationY(0, One)),
                 XMMatrixTranslation(7000, 1000, 0)),
             WallTex, "brick2"),
       RItem(XMMatrixMultiply(
                 XMMatrixMultiply(XMMatrixScaling(13000, 3000, 1500),
                                  XMMatrixRotationY(0, One)),
                 XMMatrixTranslation(-7000, 1000, 0)),
             WallTex, "brick2") >>

WallObjRitems(i) ==
    << RItem(XMMatrixTranslation(7000, 3000, WallOfset[i]), Identity4x4, "brick1"),
       RItem(XMMatrixTranslation(-7000, 3000, WallOfset[i]), Identity4x4, "brick2"),
       RItem(XMMatrixTranslation(WallOfset[i], 3000, 7000), Identity4x4, "brick2"),
       RItem(XMMatrixTranslation(WallOfset[i], 3000, -7000), Identity4x4, "brick1") >>

\* The render items in the order BuildRenderItems pushes them to mAllRitems.
RitemList ==
    << RItem(XMMatrixScaling(2000, One, 2000), Identity4x4, "grass") >>
    \o TowerRitems(1) \o TowerRitems(2) \o TowerRitems(3) \o TowerRitems(4)
    \o WallRitems
    \o WallObjRitems(1) \o WallObjRitems(2) \o WallObjRitems(3) \o WallObjRitems(4)
    \o << RItem(XMMatrixMultiply(XMMatrixScaling(7500, 2500, 7500),
                                 XMMatrixTranslation(0, 1000, 0)),
                Identity4x4, "checkboard"),
          RItem(XMMatrixMultiply(
                    XMMatrixMultiply(XMMatrixScaling(700, 700, 700),
                                     XMMatrixRotationX(-454, 891)),
                    XMMatrixTranslation(0, 3000, 0)),
                Identity4x4, "ice"),
          RItem(XMMatrixMultiply(XMMatrixScaling(13000, 700, 13000),
                                 XMMatrixTranslation(0, -200, 0)),
                Identity4x4, "brick2"),
          RItem(XMMatrixTranslation(0, 100, 0), XMMatrixScaling(5000, 5000, One),
                "water"),
          RItem(Identity4x4, Identity4x4, "treeSprites"),
          RItem(XMMatrixMultiply(XMMatrixScaling(5000, 3000, 2000),
                                 XMMatrixTranslation(0, 700, -7000)),
                Identity4x4, "wood") >>

\* BuildRenderItems: ObjCBIndex = objIndex++ in push order
BuildRenderItems ==
    [k \in 1..Len(RitemList) |->
        [World          |-> RitemList[k].World,
         TexTransform   |-> RitemList[k].TexTransform,
         Mat            |-> RitemList[k].Mat,
         ObjCBIndex     |-> k - 1]]

\* RenderItem::NumFramesDirty of a new RenderItem
NewRitemState == [NumFramesDirty |-> InitNumFramesDirty]

\* ------------------------------------------------------------------ waves
\* The wave field: m rows and n columns of heights, each grid the sequence of
\* its rows; previous and current are the two history grids, accumulated the
\* elapsed time not yet consumed by a simulation step.
\*   d = damping*dt + 2,  e = c^2*dt^2 / dx^2,
\*   k1 = (damping*dt - 2) / d,  k2 = (4 - 8e) / d,  k3 = 2e / d
\* Mutant of Waves: k1 has the opposite sign.
Waves_K1Sign(m, n, dx, dt, speed, damping) ==
    LET ddt == (damping * dt) \div One
        d   == ddt + 2 * One
        cdt == (speed * dt) \div One
        e   == (cdt * cdt * One) \div (dx * dx)
    IN  [m |-> m, n |-> n, dx |-> dx, dt |-> dt, speed |-> speed,
         damping |-> damping,
         k1 |-> ((2 * One - ddt) * One) \div d,
         k2 |-> ((4 * One - 8 * e) * One) \div d,
         k3 |-> (2 * e * One) \div d,
         previous |-> [c \in 1..(m * n) |-> 0],
         current |-> [c \in 1..(m * n) |-> 0],
         accumulated |-> 0]

Waves(m, n, dx, dt, speed, damping) ==
    LET ddt == (damping * dt) \div One
        d   == ddt + 2 * One
        cdt == (speed * dt) \div One
        e   == (cdt * cdt * One) \div (dx * dx)
    IN  [m |-> m, n |-> n, dx |-> dx, dt |-> dt, speed |-> speed,
         damping |-> damping,
         k1 |-> ((ddt - 2 * One) * One) \div d,
         k2 |-> ((4 * One - 8 * e) * One) \div d,
         k3 |-> (2 * e * One) \div d,
         previous |-> [c \in 1..(m * n) |-> 0],
         current |-> [c \in 1..(m * n) |-> 0],
         accumulated |-> 0]

\* grid[i][j]
GridAt(w, grid, i, j) == grid[i * w.n + j + 1]

Clamp(x, lo, hi) == IF x < lo THEN lo ELSE IF x > hi THEN hi ELSE x

\* Mutant of WaveCellNext: k2 is added to the current height, not multiplied.
WaveCellNext_AddsK2(w, i, j) ==
    (w.k1 * GridAt(w, w.previous, i, j)
     + w.k2 + GridAt(w, w.current, i, j)
     + w.k3 * (GridAt(w, w.current, i + 1, j) + GridAt(w, w.current, i - 1, j)
               + GridAt(w, w.current, i, j + 1) + GridAt(w, w.current, i, j - 1)))
    \div One

\* next[i][j] = k1*previous[i][j] + k2*current[i][j]
\*            + k3*(current[i+1][j] + current[i-1][j] + current[i][j+1] + current[i][j-1])
WaveCellNext(w, i, j) ==
    (w.k1 * GridAt(w, w.previous, i, j)
     + w.k2 * GridAt(w, w.current, i, j)
     + w.k3 * (GridAt(w, w.current, i + 1, j) + GridAt(w, w.current, i - 1, j)
               + GridAt(w, w.current, i, j + 1) + GridAt(w, w.current, i, j - 1)))
    \div One

\* The interior cells of the next grid by the difference step, row by row.
WaveInterior(w) ==
    SubSeq([i \in 1..(w.m - 2) |->
               SubSeq([j \in 1..(w.n - 2) |-> WaveCellNext(w, i, j)], 1, w.n - 2)],
           1, w.m - 2)

\* The next grid: the interior cells, and every border cell with the value of
\* the interior cell next to it.
WaveNextGrid(w) ==
    CHOOSE next \in
        {SubSeq([c \in 1..(w.m * w.n) |->
                    interior[Clamp((c - 1) \div w.n, 1, w.m - 2)]
                            [Clamp((c - 1) % w.n, 1, w.n - 2)]],
                1, w.m * w.n) : interior \in {WaveInterior(w)}} : TRUE

\* Mutant of WaveRotate: previous keeps its old grid.
WaveRotate_KeepsPrevious(w, next) == [w EXCEPT !.current = next]

\* previous <- current, current <- next
WaveRotate(w, next) == [w EXCEPT !.previous = w.current, !.current = next]

\* One simulation step.
WaveStep(w) == WaveRotate(w, WaveNextGrid(w))

\* Mutant of WaveStepDue: a step is due in every update.
WaveStepDue_Always(w) == w.accumulated > 0

\* while accumulated time >= dt
WaveStepDue(w) == w.accumulated >= w.dt

\* update's loop: while a step is due, take it and go on with the stepped field.
RECURSIVE WavesUpdateLoop(_)
WavesUpdateLoop(w) ==
    IF WaveStepDue(w)
    THEN CHOOSE after \in
             {WavesUpdateLoop(stepped) :
                 stepped \in {[WaveStep(w) EXCEPT !.accumulated = @ - w.dt]}} : TRUE
    ELSE w

\* update(elapsed)
WavesUpdate(w, elapsed) ==
    WavesUpdateLoop([w EXCEPT !.accumulated = @ + elapsed])

\* Mutant of DisturbShare: the diagonal neighbours are raised too.
DisturbShare_Diagonals(di, dj, magnitude) ==
    IF di = 0 /\ dj = 0 THEN magnitude
    ELSE IF di \in {-1, 0, 1} /\ dj \in {-1, 0, 1} THEN magnitude \div 2
    ELSE 0

\* What disturb adds to the cell at offset (di, dj) from the target: the
\* magnitude to the target, half of it to the four direct neighbours.
DisturbShare(di, dj, magnitude) ==
    IF di = 0 /\ dj = 0 THEN magnitude
    ELSE IF (di = 0 /\ dj \in {-1, 1}) \/ (dj = 0 /\ di \in {-1, 1})
         THEN magnitude \div 2
    ELSE 0

\* disturb(row, col, magnitude)
WavesDisturb(w, row, col, magnitude) ==
    [w EXCEPT !.current =
        SubSeq([c \in 1..(w.m * w.n) |->
                   @[c] + DisturbShare(((c - 1) \div w.n) - row,
                                       ((c - 1) % w.n) - col, magnitude)],
               1, w.m * w.n)]

\* VertexCount(), Width() and Depth(): the grid has m*n vertices and spans
\* n*dx by m*dx.
WavesVertexCount(w) == w.m * w.n
WavesWidth(w) == w.n * w.dx
WavesDepth(w) == w.m * w.dx

\* Position(i): vertex i is the cell of row i / n and column i % n; the grid is
\* centred on the origin, x grows with the column, z falls with the row and y
\* is the current height.
WavesPosition(w, i) ==
    [x |-> ((2 * (i % w.n) - (w.n - 1)) * w.dx) \div 2,
     y |-> w.current[i + 1],
     z |-> (((w.m - 1) - 2 * (i \div w.n)) * w.dx) \div 2]

\* ------------------------------------------------------------------ state
VARIABLES
    pc,                       \* where the host thread is inside Update / Draw
    mCurrFrameResourceIndex,  \* index of mCurrFrameResource in mFrameResources
    Fence,                    \* mFrameResources[s]->Fence
    ObjectCB,                 \* mFrameResources[s]->ObjectCB, by element: the render
                              \* item whose constants were copied there last, 0 = none
    MaterialCB,               \* mFrameResources[s]->MaterialCB, by MatCBIndex
    PassCB,                   \* mFrameResources[s]->PassCB, element 0
    WavesVB,                  \* mFrameResources[s]->WavesVB
    CmdListAlloc,             \* mFrameResources[s]->CmdListAlloc: frame recorded in it
    mAllRitems,               \* the fields of the render items the frame loop assigns
    mMaterials,               \* the fields of the materials the frame loop assigns
    wavesGeoVB,               \* mWavesRitem->Geo->VertexBufferGPU: the slot(s) whose WavesVB it is
    mCommandList,             \* slots the recorded command list references
    mCurrentFence,            \* host-side fence counter
    completed,                \* mFence->GetCompletedValue()
    cmdQueue,                 \* mCommandQueue: work the GPU has not consumed yet
    gpuBusy,                  \* slots of command lists the GPU started and no signal followed
    waitReg,                  \* fence value of the event registered on mFence, 0 = none
    eventSet,                 \* the event of the pending wait is signalled
    eventHandle,              \* Update's local eventHandle: "none", "valid" or "null"
    waitErrorFrame,           \* history: frame in which a call of the wait reported
                              \* an error last, 0 = none
    TotalTime,                \* gt.TotalTime()
    DeltaTime,                \* gt.DeltaTime()
    frame,                    \* history: number of Update calls so far
    stalled,                  \* history: this frame's Update took the wait branch
    slotWrites,               \* history: host writes into the buffers of each slot
    objCopies,                \* history: CopyData calls per slot and render item
    matCopies,                \* history: CopyData calls per slot and material
    objPasses,                \* history: UpdateObjectCBs calls
    matPasses,                \* history: UpdateMaterialCBs calls
    submits,                  \* history: ExecuteCommandLists calls whose list references the slot
    markerLog,                \* history: the slots and values of the fence stores of Draw
    stepLog,                  \* history: the steps of the start-up or of the current frame,
                              \* in the order taken
    mWaves,                   \* the wave field *mWaves
    waveSteps,                \* history: simulation steps of mWaves since it was
                              \* constructed or disturbed last
    lastDisturb,              \* history: row, column and magnitude of the last disturb
    lastElapsed               \* history: the elapsed time passed to the last update

vars ==
    <<pc, mCurrFrameResourceIndex, Fence, ObjectCB, MaterialCB, PassCB, WavesVB,
      CmdListAlloc, mAllRitems, mMaterials, wavesGeoVB, mCommandList,
      mCurrentFence, completed, cmdQueue, gpuBusy, waitReg, eventSet,
      eventHandle, waitErrorFrame, TotalTime, DeltaTime, frame, stalled, slotWrites, objCopies, matCopies,
      objPasses, matPasses, submits, markerLog, stepLog, mWaves, waveSteps,
      lastDisturb, lastElapsed>>

Slots == 0..(gNumFrameResources - 1)
RitemIds == 1..Len(RitemList)

\* Mutant of ObjectCount: the object buffers are one element short.
ObjectCount_OneShort == Len(RitemList) - 1

\* (UINT)mAllRitems.size() and (UINT)mMaterials.size() when BuildFrameResources
\* runs: Initialize calls it after BuildMaterials and BuildRenderItems.
ObjectCount == Len(RitemList)
MaterialCount == Cardinality(MaterialNames)

\* The elements of an UploadBuffer of elementCount elements.
ObjCBIndices == 0..(ObjectCount - 1)
MatCBIndices == 0..(MaterialCount - 1)
\* gt.DeltaTime(), in time quanta of 0.05 s: no time passed, or one quantum.
DeltaTimes == {0, 1}

\* The fields of the render items and materials that are assigned only while
\* the scene is built.
RenderItems == BuildRenderItems
Materials == BuildMaterials

\* No disturb was applied to the wave field.
NoDisturb == [applied |-> FALSE]

\* An element of an upload buffer nothing was copied into yet.
NoData == [empty |-> TRUE]

\* ----------------------------------------------------------- construction
\* FrameResource::FrameResource: buffers sized by the counts, Fence = 0
NewFrameResourceFence == 0

\* BuildFrameResources / Initialize: what Initialize builds. Initialize ends
\* with FlushCommandQueue, so the GPU has completed every fence value the
\* start-up used; how many it used is left open.
InitData ==
    /\ mCurrFrameResourceIndex = 0
    /\ Fence = [s \in Slots |-> NewFrameResourceFence]
    /\ ObjectCB = [s \in Slots |-> [i \in ObjCBIndices |-> 0]]
    /\ MaterialCB = [s \in Slots |-> [i \in MatCBIndices |-> NoData]]
    /\ PassCB = [s \in Slots |-> NoData]
    /\ WavesVB = [s \in Slots |-> NoData]
    /\ CmdListAlloc = [s \in Slots |-> 0]
    /\ mAllRitems = [k \in RitemIds |-> NewRitemState]
    /\ mMaterials = [n \in MaterialNames |-> NewMaterialState]
    /\ wavesGeoVB = {}
    /\ mCommandList = {}
    /\ mCurrentFence \in 0..MaxInitFence
    /\ completed = mCurrentFence
    /\ cmdQueue = << >>
    /\ gpuBusy = {}
    /\ waitReg = 0
    /\ eventSet = FALSE
    /\ eventHandle = "none"
    /\ waitErrorFrame = 0
    /\ TotalTime = 0
    /\ DeltaTime = 0
    /\ frame = 0
    /\ stalled = FALSE
    /\ slotWrites = [s \in Slots |-> 0]
    /\ objCopies = [s \in Slots |-> [k \in RitemIds |-> 0]]
    /\ matCopies = [s \in Slots |-> [n \in MaterialNames |-> 0]]
    /\ objPasses = 0
    /\ matPasses = 0
    /\ submits = [s \in Slots |-> 0]
    /\ markerLog = << >>
    /\ waveSteps = 0
    /\ lastDisturb = NoDisturb
    /\ lastElapsed = 0

\* Initialize returned true and Run entered the message loop.
InitApp ==
    /\ pc = "idle"
    /\ stepLog = << >>
    /\ InitData

\* mWaves = std::make_unique<Waves>(128, 128, 1.0f, 0.03f, 4.0f, 0.2f)
Init ==
    /\ InitApp
    /\ mWaves = Waves(GridSize, GridSize, One, 30, 4000, 200)

\* ------------------------------------------------------------------ Update
\* Mutants of NextFrameResourceIndex: the ring is one slot short; the index never moves.
NextFrameResourceIndex_ShortRing(i) == (i + 1) % (gNumFrameResources - 1)
NextFrameResourceIndex_Stuck(i) == i

\* mCurrFrameResourceIndex = (mCurrFrameResourceIndex + 1) % gNumFrameResources
NextFrameResourceIndex(i) == (i + 1) % gNumFrameResources

\* Mutants of MustWait: never wait; wait for the newest fence instead of the
\* slot's; accept the fence value before the slot's.
MustWait_Never(fence, completedValue) == FALSE
MustWait_Newest(fence, completedValue) == completedValue < mCurrentFence
MustWait_OneEarly(fence, completedValue) == fence # 0 /\ completedValue + 1 < fence

\* mCurrFrameResource->Fence != 0 && mFence->GetCompletedValue() < mCurrFrameResource->Fence
MustWait(fence, completedValue) == fence # 0 /\ completedValue < fence

Ghosts == <<frame, stalled, slotWrites, objCopies, matCopies, objPasses, matPasses>>
Timer == <<TotalTime, DeltaTime>>
Scene == <<mAllRitems, mMaterials>>
Buffers == <<ObjectCB, MaterialCB, PassCB, WavesVB, CmdListAlloc>>
Gpu == <<completed, cmdQueue, gpuBusy>>
Event == <<waitReg, eventSet, eventHandle, waitErrorFrame>>
WaveField == <<mWaves, waveSteps, lastDisturb, lastElapsed>>

\* Simulation steps an update(elapsed) took from before to after: each step
\* consumed dt of the accumulated time.
StepsTaken(before, elapsed, after) ==
    (before.accumulated + elapsed - after.accumulated) \div before.dt

\* Update, up to the selection of the frame resource; the timer ticked before.
UpdateBegin ==
    /\ pc = "idle"
    /\ frame < MaxFrames
    /\ \E dt \in DeltaTimes :
          /\ DeltaTime' = dt
          /\ TotalTime' = TotalTime + dt
    /\ mCurrFrameResourceIndex' = NextFrameResourceIndex(mCurrFrameResourceIndex)
    /\ frame' = frame + 1
    /\ stalled' = FALSE
    /\ pc' = "fenceCheck"
    /\ stepLog' = << "select" >>
    /\ UNCHANGED <<Fence, Buffers, Scene, wavesGeoVB, mCommandList, mCurrentFence,
                   Gpu, Event, slotWrites, objCopies, matCopies, objPasses,
                   matPasses,
                   submits, markerLog, WaveField>>

\* if (Fence != 0 && GetCompletedValue() < Fence)
UpdateFenceCheck ==
    /\ pc = "fenceCheck"
    /\ pc' = IF MustWait(Fence[mCurrFrameResourceIndex], completed)
             THEN "setEvent" ELSE "updateWater"
    /\ stepLog' = Append(stepLog, "check")
    /\ UNCHANGED <<mCurrFrameResourceIndex, Fence, Buffers, Scene, wavesGeoVB,
                   mCommandList, mCurrentFence, Gpu, Event, Timer, Ghosts,
                   submits, markerLog, WaveField>>

\* Mutant of SetEventOnCompletion: the event is signalled only by a Signal that
\* the GPU reaches after the registration.
SetEventOnCompletion_OnlyLater(value, completedValue) == FALSE

\* mFence->SetEventOnCompletion(value, eventHandle): the event is signalled at
\* once when the fence has already reached the value.
SetEventOnCompletion(value, completedValue) == completedValue >= value

\* CreateEventEx; mFence->SetEventOnCompletion(Fence, eventHandle)
UpdateSetEvent ==
    /\ pc = "setEvent"
    /\ waitReg' = Fence[mCurrFrameResourceIndex]
    /\ eventSet' = SetEventOnCompletion(Fence[mCurrFrameResourceIndex], completed)
    /\ eventHandle' = "valid"
    /\ stalled' = TRUE
    /\ pc' = "wait"
    /\ stepLog' = Append(stepLog, "setEvent")
    /\ UNCHANGED <<mCurrFrameResourceIndex, Fence, Buffers, Scene, wavesGeoVB,
                   mCommandList, mCurrentFence, Gpu, Timer, frame, slotWrites,
                   objCopies, matCopies, objPasses, matPasses, waitErrorFrame,
                   submits, markerLog, WaveField>>

\* WaitForSingleObject(eventHandle, INFINITE); CloseHandle(eventHandle)
UpdateWait ==
    /\ pc = "wait"
    /\ eventHandle = "valid"
    /\ eventSet
    /\ eventSet' = FALSE
    /\ waitReg' = 0
    /\ eventHandle' = "none"
    /\ pc' = "updateWater"
    /\ stepLog' = Append(stepLog, "wait")
    /\ UNCHANGED <<mCurrFrameResourceIndex, Fence, Buffers, Scene, wavesGeoVB,
                   mCommandList, mCurrentFence, Gpu, Timer, Ghosts, waitErrorFrame,
                   submits, markerLog, WaveField>>

\* ------------------------------------------- Update: the calls of the wait fail
\* CreateEventEx returns NULL, which Update does not test; SetEventOnCompletion
\* with a null event returns only once the fence has reached the value.
UpdateCreateEventFails ==
    /\ pc = "setEvent"
    /\ eventHandle' = "null"
    /\ waitErrorFrame' = frame
    /\ stalled' = TRUE
    /\ pc' = "wait"
    /\ stepLog' = Append(stepLog, "setEvent")
    /\ UNCHANGED <<mCurrFrameResourceIndex, Fence, Buffers, Scene, wavesGeoVB,
                   mCommandList, mCurrentFence, Gpu, waitReg, eventSet, Timer,
                   frame, slotWrites, objCopies, matCopies, objPasses, matPasses,
                   submits, markerLog, WaveField>>

\* ThrowIfFailed(mFence->SetEventOnCompletion(...)) throws DxException, which
\* leaves Update and Run and is caught in WinMain: MessageBox, return 0.
UpdateSetEventThrows ==
    /\ pc = "setEvent"
    /\ waitErrorFrame' = frame
    /\ stalled' = TRUE
    /\ pc' = "terminated"
    /\ stepLog' = Append(stepLog, "setEvent")
    /\ UNCHANGED <<mCurrFrameResourceIndex, Fence, Buffers, Scene, wavesGeoVB,
                   mCommandList, mCurrentFence, Gpu, waitReg, eventSet,
                   eventHandle, Timer, frame, slotWrites, objCopies, matCopies,
                   objPasses, matPasses,
                   submits, markerLog, WaveField>>

\* With the null event SetEventOnCompletion has returned;
\* WaitForSingleObject(NULL, INFINITE) returns WAIT_FAILED at once and
\* CloseHandle(NULL) fails; Update tests neither result.
UpdateWaitNullEvent ==
    /\ pc = "wait"
    /\ eventHandle = "null"
    /\ completed >= Fence[mCurrFrameResourceIndex]
    /\ eventHandle' = "none"
    /\ waitErrorFrame' = frame
    /\ pc' = "updateWater"
    /\ stepLog' = Append(stepLog, "wait")
    /\ UNCHANGED <<mCurrFrameResourceIndex, Fence, Buffers, Scene, wavesGeoVB,
                   mCommandList, mCurrentFence, Gpu, waitReg, eventSet, Timer,
                   Ghosts,
                   submits, markerLog, WaveField>>

\* WaitForSingleObject(eventHandle, INFINITE) returns WAIT_FAILED; Update does
\* not test the result and goes on to CloseHandle and UpdateWater.
UpdateWaitFails ==
    /\ pc = "wait"
    /\ eventHandle = "valid"
    /\ eventSet' = FALSE
    /\ waitReg' = 0
    /\ eventHandle' = "none"
    /\ waitErrorFrame' = frame
    /\ pc' = "updateWater"
    /\ stepLog' = Append(stepLog, "wait")
    /\ UNCHANGED <<mCurrFrameResourceIndex, Fence, Buffers, Scene, wavesGeoVB,
                   mCommandList, mCurrentFence, Gpu, Timer, Ghosts,
                   submits, markerLog, WaveField>>

\* Mutants of StepAfter: Draw stores the fence before it submits the command
\* list; Update propagates the materials before the objects.
StepAfter_RetireFirst(p) ==
    CASE p = "updateWater"       -> "updateObjectCBs"
      [] p = "updateObjectCBs"   -> "updateMaterialCBs"
      [] p = "updateMaterialCBs" -> "updateMainPassCB"
      [] p = "updateMainPassCB"  -> "drawRecord"
      [] p = "drawRecord"        -> "drawFence"
      [] p = "drawFence"         -> "drawExecute"
      [] p = "drawExecute"       -> "drawSignal"
      [] p = "drawSignal"        -> "idle"

StepAfter_MaterialsFirst(p) ==
    CASE p = "updateWater"       -> "updateMaterialCBs"
      [] p = "updateMaterialCBs" -> "updateObjectCBs"
      [] p = "updateObjectCBs"   -> "updateMainPassCB"
      [] p = "updateMainPassCB"  -> "drawRecord"
      [] p = "drawRecord"        -> "drawExecute"
      [] p = "drawExecute"       -> "drawFence"
      [] p = "drawFence"         -> "drawSignal"
      [] p = "drawSignal"        -> "idle"

\* The order of the statements of Update after the wait and of Draw:
\* UpdateWater; UpdateObjectCBs; UpdateMaterialCBs; UpdateMainPassCB; record the
\* command list; ExecuteCommandLists; Fence = ++mCurrentFence; Signal; return.
StepAfter(p) ==
    CASE p = "updateWater"       -> "updateObjectCBs"
      [] p = "updateObjectCBs"   -> "updateMaterialCBs"
      [] p = "updateMaterialCBs" -> "updateMainPassCB"
      [] p = "updateMainPassCB"  -> "drawRecord"
      [] p = "drawRecord"        -> "drawExecute"
      [] p = "drawExecute"       -> "drawFence"
      [] p = "drawFence"         -> "drawSignal"
      [] p = "drawSignal"        -> "idle"

\* tu += 0.1f * dt; if (tu >= 1.0f) tu -= 1.0f;   (and tv with 0.02f)
ScrollTexCoord(t, rate, dt) ==
    LET moved == t + rate * dt
    IN  IF moved >= One THEN moved - One ELSE moved

\* Mutant of WaterNumFramesDirty: the material is not marked dirty.
WaterNumFramesDirty_Kept(old) == old

\* waterMat->NumFramesDirty = gNumFrameResources;
WaterNumFramesDirty(old) == gNumFrameResources

\* Mutant of WaveTexU: the offset 0.5 is left out.
WaveTexU_NoOffset(x, width) == (x * One) \div width

\* v.TexC.x = 0.5f + v.Pos.x / mWaves->Width();
WaveTexU(x, width) == One \div 2 + (x * One) \div width

\* v.TexC.y = 0.5f - v.Pos.z / mWaves->Depth();
WaveTexV(z, depth) == One \div 2 - (z * One) \div depth

\* Vertex v of the loop of UpdateWater for vertex i of w; the normal is not
\* part of the state.
WaveVertex(w, i) ==
    [Pos  |-> WavesPosition(w, i),
     TexC |-> [x |-> WaveTexU(WavesPosition(w, i).x, WavesWidth(w)),
               y |-> WaveTexV(WavesPosition(w, i).z, WavesDepth(w))]]

\* What UpdateWater copies with currWavesVB->CopyData(i, v), i from 0 to
\* VertexCount() - 1, from the solution w after this frame's mWaves->Update:
\* kept as the heights v.Pos.y of the VertexCount() vertices, the other fields
\* of a vertex follow from its index (WavesVBData).
WavesVertices(w) ==
    [solutionOfFrame |-> frame,
     y |-> SubSeq([i \in 1..WavesVertexCount(w) |-> WaveVertex(w, i - 1).Pos.y],
                  1, WavesVertexCount(w))]

\* Element i of slot s's WavesVB.
WavesVBData(s, i) ==
    IF WavesVB[s] = NoData THEN NoData
    ELSE [WaveVertex(mWaves, i) EXCEPT !.Pos.y = WavesVB[s].y[i + 1]]

\* Mutant of CurrWavesVBResource: the buffer of the first frame resource.
CurrWavesVBResource_First(slot) == {0}

\* currWavesVB->Resource(): the vertex buffer of the frame resource.
CurrWavesVBResource(slot) == {slot}

\* Mutant of UpdateWaterDisturb: the block is compiled in and its condition met.
UpdateWaterDisturb_Enabled(w) == WavesDisturb(w, 1, 1, 200)

\* The block "Every quarter second, generate a random wave" with its call of
\* mWaves->Disturb is commented out: the field goes to Update as it is.
UpdateWaterDisturb(w) == w

\* UpdateWater: scroll the water material, update the waves, fill this frame's
\* WavesVB and point the water geometry at it.
UpdateWater ==
    /\ pc = "updateWater"
    /\ LET cur == mCurrFrameResourceIndex
           waterMat == mMaterials["water"]
           tu == ScrollTexCoord(At(waterMat.MatTransform, 3, 0), TuRate, DeltaTime)
           tv == ScrollTexCoord(At(waterMat.MatTransform, 3, 1), TvRate, DeltaTime)
           moved == [k \in Cells |-> LET r == Row(k) c == Col(k) IN
                        IF r = 3 /\ c = 0 THEN tu
                        ELSE IF r = 3 /\ c = 1 THEN tv
                        ELSE At(waterMat.MatTransform, r, c)]
       IN  /\ mMaterials' =
                 [mMaterials EXCEPT
                     !["water"] =
                         [@ EXCEPT !.MatTransform = moved,
                                   !.NumFramesDirty =
                                       WaterNumFramesDirty(waterMat.NumFramesDirty)]]
           /\ mWaves' = WavesUpdate(UpdateWaterDisturb(mWaves), DeltaTime * DtQuantum)
           /\ WavesVB' = [WavesVB EXCEPT ![cur] = WavesVertices(mWaves')]
           /\ wavesGeoVB' = CurrWavesVBResource(cur)
           /\ slotWrites' = [slotWrites EXCEPT ![cur] = @ + 1]
    /\ pc' = StepAfter(pc)
    /\ stepLog' = Append(stepLog, "waves")
    /\ lastElapsed' = DeltaTime * DtQuantum
    /\ waveSteps' =
          waveSteps + StepsTaken(mWaves, DeltaTime * DtQuantum, mWaves')
    /\ UNCHANGED <<mCurrFrameResourceIndex, Fence, ObjectCB, MaterialCB, PassCB,
                   CmdListAlloc, mAllRitems, mCommandList, mCurrentFence, Gpu,
                   Event, Timer, frame, stalled, objCopies, matCopies, objPasses,
                   matPasses,
                   submits, markerLog, lastDisturb>>

\* Mutant of IsDirty: the count is not tested.
IsDirty_Always(numFramesDirty) == TRUE

\* if (e->NumFramesDirty > 0)
IsDirty(numFramesDirty) == numFramesDirty > 0

\* Mutant of DirtyAfterCopy: the count is not decremented.
DirtyAfterCopy_Kept(numFramesDirty) == numFramesDirty

\* e->NumFramesDirty--;
DirtyAfterCopy(numFramesDirty) == numFramesDirty - 1

\* ObjectConstants objConstants; XMStoreFloat4x4(&objConstants.World, XMMatrixTranspose(world));
\* for every render item (World is assigned only in BuildRenderItems)
\* ObjectConstants objConstants: a default-constructed ObjectConstants, both
\* matrices the identity.
NewObjectConstants == [World |-> Identity4x4, TexTransform |-> Identity4x4]

RitemObjectConstants ==
    [k \in RitemIds |->
        [NewObjectConstants EXCEPT !.World = XMMatrixTranspose(RenderItems[k].World)]]

ObjectConstantsOf(k) == RitemObjectConstants[k]

\* Mutant of ObjCBElement: the element after the render item's own.
ObjCBElement_Next(k) == RenderItems[k].ObjCBIndex + 1

\* The element of the object buffer render item k is copied to: e->ObjCBIndex
ObjCBElement(k) == RenderItems[k].ObjCBIndex

\* What element i of slot s's ObjectCB holds.
ObjectCBData(s, i) ==
    IF ObjectCB[s][i] = 0 THEN NoData ELSE ObjectConstantsOf(ObjectCB[s][i])

\* UpdateObjectCBs: copy every dirty render item into this frame's ObjectCB.
UpdateObjectCBs ==
    /\ pc = "updateObjectCBs"
    /\ LET cur == mCurrFrameResourceIndex
           dirty == {k \in RitemIds : IsDirty(mAllRitems[k].NumFramesDirty)}
           written == {ObjCBElement(k) : k \in dirty}
           last(i) == CHOOSE k \in dirty :
                          /\ ObjCBElement(k) = i
                          /\ \A j \in dirty :
                                 ObjCBElement(j) = i => j <= k
       IN  /\ ObjectCB' =
                 [ObjectCB EXCEPT
                     ![cur] = [i \in ObjCBIndices |->
                                  IF i \in written
                                  THEN last(i)
                                  ELSE @[i]]]
           /\ mAllRitems' =
                 [k \in RitemIds |->
                     IF k \in dirty
                     THEN [mAllRitems[k] EXCEPT
                              !.NumFramesDirty = DirtyAfterCopy(@)]
                     ELSE mAllRitems[k]]
           /\ objCopies' =
                 [objCopies EXCEPT
                     ![cur] = [k \in RitemIds |->
                                  IF k \in dirty THEN @[k] + 1 ELSE @[k]]]
           /\ slotWrites' =
                 [slotWrites EXCEPT
                     ![cur] = IF dirty = {} THEN @ ELSE @ + 1]
    /\ objPasses' = objPasses + 1
    /\ pc' = StepAfter(pc)
    /\ stepLog' = Append(stepLog, "objects")
    /\ UNCHANGED <<mCurrFrameResourceIndex, Fence, MaterialCB, PassCB, WavesVB,
                   CmdListAlloc, mMaterials, wavesGeoVB, mCommandList,
                   mCurrentFence, Gpu, Event, Timer, frame, stalled, matCopies,
                   matPasses,
                   submits, markerLog, WaveField>>

\* MaterialConstants matConstants: DiffuseAlbedo, FresnelR0, Roughness and the
\* transposed MatTransform
MaterialConstantsOf(n) ==
    [DiffuseAlbedo |-> Materials[n].DiffuseAlbedo,
     FresnelR0     |-> Materials[n].FresnelR0,
     Roughness     |-> Materials[n].Roughness,
     MatTransform  |-> XMMatrixTranspose(mMaterials[n].MatTransform)]

\* UpdateMaterialCBs: copy every dirty material into this frame's MaterialCB.
UpdateMaterialCBs ==
    /\ pc = "updateMaterialCBs"
    /\ LET cur == mCurrFrameResourceIndex
           dirty == {n \in MaterialNames : IsDirty(mMaterials[n].NumFramesDirty)}
           written == {Materials[n].MatCBIndex : n \in dirty}
           owner(i) == CHOOSE n \in dirty : Materials[n].MatCBIndex = i
       IN  /\ MaterialCB' =
                 [MaterialCB EXCEPT
                     ![cur] = [i \in MatCBIndices |->
                                  IF i \in written
                                  THEN MaterialConstantsOf(owner(i))
                                  ELSE @[i]]]
           /\ mMaterials' =
                 [n \in MaterialNames |->
                     IF n \in dirty
                     THEN [mMaterials[n] EXCEPT
                              !.NumFramesDirty = DirtyAfterCopy(@)]
                     ELSE mMaterials[n]]
           /\ matCopies' =
                 [matCopies EXCEPT
                     ![cur] = [n \in MaterialNames |->
                                  IF n \in dirty THEN @[n] + 1 ELSE @[n]]]
           /\ slotWrites' =
                 [slotWrites EXCEPT
                     ![cur] = IF dirty = {} THEN @ ELSE @ + 1]
    /\ matPasses' = matPasses + 1
    /\ pc' = StepAfter(pc)
    /\ stepLog' = Append(stepLog, "materials")
    /\ UNCHANGED <<mCurrFrameResourceIndex, Fence, ObjectCB, PassCB, WavesVB,
                   CmdListAlloc, mAllRitems, wavesGeoVB, mCommandList,
                   mCurrentFence, Gpu, Event, Timer, frame, stalled, objCopies,
                   objPasses,
                   submits, markerLog, WaveField>>

\* Mutant of MainPassCB: the block keeps the times of the tick before.
MainPassCB_LastTick ==
    [TotalTime |-> TotalTime - DeltaTime, DeltaTime |-> DeltaTime]

\* mMainPassCB as UpdateMainPassCB fills it: of its fields the two that differ
\* between ticks, mMainPassCB.TotalTime = gt.TotalTime() and
\* mMainPassCB.DeltaTime = gt.DeltaTime().
MainPassCB == [TotalTime |-> TotalTime, DeltaTime |-> DeltaTime]

\* UpdateMainPassCB: currPassCB->CopyData(0, mMainPassCB), every frame.
UpdateMainPassCB ==
    /\ pc = "updateMainPassCB"
    /\ PassCB' = [PassCB EXCEPT ![mCurrFrameResourceIndex] = MainPassCB]
    /\ slotWrites' = [slotWrites EXCEPT ![mCurrFrameResourceIndex] = @ + 1]
    /\ pc' = StepAfter(pc)
    /\ stepLog' = Append(stepLog, "pass")
    /\ UNCHANGED <<mCurrFrameResourceIndex, Fence, ObjectCB, MaterialCB, WavesVB,
                   CmdListAlloc, Scene, wavesGeoVB, mCommandList, mCurrentFence,
                   Gpu, Event, Timer, frame, stalled, objCopies, matCopies,
                   objPasses, matPasses,
                   submits, markerLog, WaveField>>

\* -------------------------------------------------------------------- Draw
\* Draw up to mCommandList->Close(): reset this frame's allocator and record the
\* commands, which reference this frame's PassCB, ObjectCB and MaterialCB and the
\* vertex buffer the water geometry points at.
DrawRecord ==
    /\ pc = "drawRecord"
    /\ CmdListAlloc' = [CmdListAlloc EXCEPT ![mCurrFrameResourceIndex] = frame]
    /\ slotWrites' = [slotWrites EXCEPT ![mCurrFrameResourceIndex] = @ + 1]
    /\ mCommandList' = {mCurrFrameResourceIndex} \cup wavesGeoVB
    /\ pc' = StepAfter(pc)
    /\ stepLog' = Append(stepLog, "record")
    /\ UNCHANGED <<mCurrFrameResourceIndex, Fence, ObjectCB, MaterialCB, PassCB,
                   WavesVB, Scene, wavesGeoVB, mCurrentFence, Gpu, Event, Timer,
                   frame, stalled, objCopies, matCopies, objPasses, matPasses,
                   submits, markerLog, WaveField>>

\* mCommandQueue->ExecuteCommandLists(...); Present
DrawExecute ==
    /\ pc = "drawExecute"
    /\ cmdQueue' = Append(cmdQueue, [op |-> "exec", slots |-> mCommandList])
    /\ pc' = StepAfter(pc)
    /\ stepLog' = Append(stepLog, "submit")
    /\ submits' = [s \in Slots |-> IF s \in mCommandList THEN submits[s] + 1 ELSE submits[s]]
    /\ UNCHANGED <<mCurrFrameResourceIndex, Fence, Buffers, Scene, wavesGeoVB,
                   mCommandList, mCurrentFence, completed, gpuBusy, Event, Timer,
                   Ghosts,
                   markerLog, WaveField>>

\* Mutant of FenceToStore: the value before the increment (mCurrentFence++).
FenceToStore_Old(currentFence) == currentFence

\* The value stored as the frame resource's fence: ++mCurrentFence
FenceToStore(currentFence) == currentFence + 1

\* mCurrFrameResource->Fence = ++mCurrentFence;
DrawFence ==
    /\ pc = "drawFence"
    /\ mCurrentFence' = mCurrentFence + 1
    /\ Fence' = [Fence EXCEPT ![mCurrFrameResourceIndex] = FenceToStore(mCurrentFence)]
    /\ pc' = StepAfter(pc)
    /\ stepLog' = Append(stepLog, "retire")
    /\ markerLog' = Append(markerLog, [slot |-> mCurrFrameResourceIndex,
                                        value |-> FenceToStore(mCurrentFence)])
    /\ UNCHANGED <<mCurrFrameResourceIndex, Buffers, Scene, wavesGeoVB,
                   mCommandList, Gpu, Event, Timer, Ghosts,
                   submits, WaveField>>

\* Mutant of SignalCommand: no Signal is enqueued.
SignalCommand_None(value) == << >>

\* What Signal(mFence, value) adds to the command queue
SignalCommand(value) == << [op |-> "signal", value |-> value] >>

\* mCommandQueue->Signal(mFence.Get(), mCurrentFence);
DrawSignal ==
    /\ pc = "drawSignal"
    /\ cmdQueue' = cmdQueue \o SignalCommand(mCurrentFence)
    /\ pc' = StepAfter(pc)
    /\ stepLog' = Append(stepLog, "signal")
    /\ UNCHANGED <<mCurrFrameResourceIndex, Fence, Buffers, Scene, wavesGeoVB,
                   mCommandList, mCurrentFence, completed, gpuBusy, Event, Timer,
                   Ghosts,
                   submits, markerLog, WaveField>>

\* --------------------------------------------------------------------- GPU
\* The GPU starts the command list at the head of the queue.
GpuExecute ==
    /\ cmdQueue # << >>
    /\ Head(cmdQueue).op = "exec"
    /\ gpuBusy' = gpuBusy \cup Head(cmdQueue).slots
    /\ cmdQueue' = Tail(cmdQueue)
    /\ UNCHANGED <<pc, mCurrFrameResourceIndex, Fence, Buffers, Scene, wavesGeoVB,
                   mCommandList, mCurrentFence, completed, Event, Timer, Ghosts,
                   submits, markerLog, stepLog, WaveField>>

\* The GPU reaches a Signal: all earlier work is finished, the fence takes the
\* value and an event registered for a value it reached is signalled.
GpuSignal ==
    /\ cmdQueue # << >>
    /\ Head(cmdQueue).op = "signal"
    /\ completed' = Head(cmdQueue).value
    /\ gpuBusy' = {}
    /\ cmdQueue' = Tail(cmdQueue)
    /\ eventSet' = (eventSet \/ (waitReg # 0 /\ Head(cmdQueue).value >= waitReg))
    /\ UNCHANGED <<pc, mCurrFrameResourceIndex, Fence, Buffers, Scene, wavesGeoVB,
                   mCommandList, mCurrentFence, waitReg, eventHandle,
                   waitErrorFrame, Timer, Ghosts,
                   submits, markerLog, stepLog, WaveField>>

\* ----------------------------------------------------------- specification
HostStep ==
    \/ UpdateBegin
    \/ UpdateFenceCheck
    \/ UpdateSetEvent
    \/ UpdateWait
    \/ UpdateWater
    \/ UpdateObjectCBs
    \/ UpdateMaterialCBs
    \/ UpdateMainPassCB
    \/ DrawRecord
    \/ DrawExecute
    \/ DrawFence
    \/ DrawSignal

Next ==
    \/ UpdateBegin
    \/ UpdateFenceCheck
    \/ UpdateSetEvent
    \/ UpdateWait
    \/ UpdateWater
    \/ UpdateObjectCBs
    \/ UpdateMaterialCBs
    \/ UpdateMainPassCB
    \/ DrawRecord
    \/ DrawExecute
    \/ DrawFence
    \/ DrawSignal
    \/ GpuExecute
    \/ GpuSignal

Spec == Init /\ [][Next]_vars

\* The host thread keeps running and the GPU consumes its queue.
FairSpec ==
    /\ Init /\ [][Next]_vars
    /\ WF_vars(HostStep)
    /\ WF_vars(GpuExecute)
    /\ WF_vars(GpuSignal)

\* -------------------------------------------------- the wave field on its own
\* Rows and columns of the grid of the end-to-end scenario.
ScenarioGrid == 8

\* Wave speeds and dampings the field is constructed with, with dx = 1.0 and
\* dt = 0.03: the configured 4.0 and 0.2, the same without damping, and the
\* speeds 30.0 and 40.0, for which c*dt/dx is 0.9 and 1.2.
WaveConfigs ==
    { [speed |-> 4000, damping |-> 200], [speed |-> 4000, damping |-> 0],
      [speed |-> 30000, damping |-> 200], [speed |-> 40000, damping |-> 200] }

\* Elapsed times passed to update: 0.01, 0.03 and 0.06.
WaveElapsed == {10, 30, 60}

\* Magnitudes passed to disturb: 1.0.
DisturbMagnitudes == {One}

Abs(x) == IF x < 0 THEN 0 - x ELSE x

\* The largest absolute height of a grid.
MaxAbs(grid) ==
    LET heights == {Abs(grid[c]) : c \in DOMAIN grid}
    IN  CHOOSE v \in heights : \A u \in heights : u <= v

WaveInit ==
    /\ InitApp
    /\ mCurrentFence = 0
    /\ mWaves \in {Waves(ScenarioGrid, ScenarioGrid, One, 30, cfg.speed, cfg.damping) :
                       cfg \in WaveConfigs}

\* mWaves->Disturb(row, col, magnitude), at least one cell from every border
WaveDisturb ==
    /\ ~lastDisturb.applied
    /\ \E row \in 1..(mWaves.m - 2), col \in 1..(mWaves.n - 2),
          magnitude \in DisturbMagnitudes :
          /\ mWaves' = WavesDisturb(mWaves, row, col, magnitude)
          /\ lastDisturb' = [applied |-> TRUE, row |-> row, col |-> col,
                              magnitude |-> magnitude]
    /\ waveSteps' = 0
    /\ UNCHANGED <<pc, mCurrFrameResourceIndex, Fence, Buffers, Scene, wavesGeoVB,
                   mCommandList, mCurrentFence, Gpu, Event, Timer, Ghosts,
                   submits, markerLog, stepLog, lastElapsed>>

\* mWaves->Update(elapsed)
WaveUpdate ==
    /\ waveSteps < MaxWaveSteps
    /\ MaxAbs(mWaves.current) <= HeightCap
    /\ \E elapsed \in WaveElapsed :
          /\ mWaves' = WavesUpdate(mWaves, elapsed)
          /\ waveSteps' =
                waveSteps + StepsTaken(mWaves, elapsed, mWaves')
          /\ lastElapsed' = elapsed
    /\ UNCHANGED <<pc, mCurrFrameResourceIndex, Fence, Buffers, Scene, wavesGeoVB,
                   mCommandList, mCurrentFence, Gpu, Event, Timer, Ghosts,
                   submits, markerLog, stepLog, lastDisturb>>

WaveNext ==
    \/ WaveDisturb
    \/ WaveUpdate

WaveSpec == WaveInit /\ [][WaveNext]_vars

\* The frame loop when the calls of the wait in Update may report errors.
FaultNext ==
    \/ UpdateBegin
    \/ UpdateFenceCheck
    \/ UpdateSetEvent
    \/ UpdateWait
    \/ UpdateCreateEventFails
    \/ UpdateSetEventThrows
    \/ UpdateWaitNullEvent
    \/ UpdateWaitFails
    \/ UpdateWater
    \/ UpdateObjectCBs
    \/ UpdateMaterialCBs
    \/ UpdateMainPassCB
    \/ DrawRecord
    \/ DrawExecute
    \/ DrawFence
    \/ DrawSignal
    \/ GpuExecute
    \/ GpuSignal

FaultSpec == Init /\ [][FaultNext]_vars

FaultHostStep ==
    \/ HostStep
    \/ UpdateCreateEventFails
    \/ UpdateSetEventThrows
    \/ UpdateWaitNullEvent
    \/ UpdateWaitFails

\* The same, with a host thread that keeps running and a GPU that consumes its
\* queue.
FairFaultSpec ==
    /\ Init /\ [][FaultNext]_vars
    /\ WF_vars(FaultHostStep)
    /\ WF_vars(GpuExecute)
    /\ WF_vars(GpuSignal)

\* ---------------------------------------------------------------- start-up
\* The calls of CastleApp::Initialize, in the order of its body.
InitOrder ==
    <<"D3DApp::Initialize", "mCommandList->Reset", "make_unique<Waves>",
      "LoadTextures", "BuildMaterials", "BuildRootSignature",
      "BuildDescriptorHeaps", "BuildShadersAndInputLayout", "BuildCastleGeometry",
      "BuildWaterGeometry", "BuildTreeSpritesGeometry", "BuildRenderItems",
      "BuildFrameResources", "BuildPSOs", "mCommandList->Close",
      "FlushCommandQueue">>

InitSteps == {InitOrder[i] : i \in 1..Len(InitOrder)}

\* The calls that report a failed HRESULT with ThrowIfFailed, in their own body
\* or in the helper they call.
InitThrowSteps ==
    InitSteps \ {"D3DApp::Initialize", "make_unique<Waves>", "BuildMaterials",
                 "BuildRenderItems"}

InitIndex(step) == CHOOSE i \in 1..Len(InitOrder) : InitOrder[i] = step

\* After the last call Initialize returns true and WinMain calls Run.
InitStepAfter(step) ==
    IF InitIndex(step) = Len(InitOrder) THEN "idle" ELSE InitOrder[InitIndex(step) + 1]

\* Mutant of AfterStartupError: the failure is ignored and Initialize goes on.
AfterStartupError_Ignored(step) == InitStepAfter(step)

\* WinMain: `if (!theApp.Initialize()) return 0;` and
\* `catch (DxException& e) { MessageBox(...); return 0; }`
AfterStartupError(step) == "terminated"

\* WinMain constructed theApp and calls Initialize. The variables of the frame
\* loop hold from the start the values the calls of Initialize give them.
StartInit ==
    /\ pc = InitOrder[1]
    /\ stepLog = << >>
    /\ InitData
    /\ mWaves = Waves(GridSize, GridSize, One, 30, 4000, 200)

\* One call of Initialize succeeds.
InitializeStep ==
    /\ pc \in InitSteps
    /\ stepLog' = Append(stepLog, pc)
    /\ pc' = InitStepAfter(pc)
    /\ UNCHANGED <<mCurrFrameResourceIndex, Fence, Buffers, Scene, wavesGeoVB,
                   mCommandList, mCurrentFence, Gpu, Event, Timer, Ghosts,
                   submits, markerLog, WaveField>>

\* D3DApp::Initialize returns false: Initialize returns false.
InitializeReturnsFalse ==
    /\ pc = "D3DApp::Initialize"
    /\ stepLog' = Append(stepLog, "error")
    /\ pc' = AfterStartupError(pc)
    /\ UNCHANGED <<mCurrFrameResourceIndex, Fence, Buffers, Scene, wavesGeoVB,
                   mCommandList, mCurrentFence, Gpu, Event, Timer, Ghosts,
                   submits, markerLog, WaveField>>

\* ThrowIfFailed throws DxException, which leaves Initialize.
InitializeThrows ==
    /\ pc \in InitThrowSteps
    /\ stepLog' = Append(stepLog, "error")
    /\ pc' = AfterStartupError(pc)
    /\ UNCHANGED <<mCurrFrameResourceIndex, Fence, Buffers, Scene, wavesGeoVB,
                   mCommandList, mCurrentFence, Gpu, Event, Timer, Ghosts,
                   submits, markerLog, WaveField>>

StartNext ==
    \/ InitializeStep
    \/ InitializeReturnsFalse
    \/ InitializeThrows
    \/ UpdateBegin
    \/ UpdateFenceCheck
    \/ UpdateSetEvent
    \/ UpdateWait
    \/ UpdateWater
    \/ UpdateObjectCBs
    \/ UpdateMaterialCBs
    \/ UpdateMainPassCB
    \/ DrawRecord
    \/ DrawExecute
    \/ DrawFence
    \/ DrawSignal
    \/ GpuExecute
    \/ GpuSignal

\* WinMain from the call of Initialize on: the start-up, then the frames.
StartSpec == StartInit /\ [][StartNext]_vars

\* ------------------------------------------------------------ properties
N == gNumFrameResources
cur == mCurrFrameResourceIndex

\* Host positions inside the slot selection and wait of Update.
AdvancePCs == {"fenceCheck", "setEvent", "wait"}

\* Host positions from which the next host step writes into the current slot.
WritePCs ==
    {"updateWater", "updateObjectCBs", "updateMaterialCBs", "updateMainPassCB",
     "drawRecord"}

\* Host positions between the end of Update and the Signal of the frame.
SubmitPCs == {"drawRecord", "drawExecute", "drawFence", "drawSignal"}

\* A submitted command list that references slot s is still queued or running.
EngineMayRead(s) ==
    \/ \E i \in 1..Len(cmdQueue) :
           cmdQueue[i].op = "exec" /\ s \in cmdQueue[i].slots
    \/ s \in gpuBusy

PendingSignals == Cardinality({i \in 1..Len(cmdQueue) : cmdQueue[i].op = "signal"})

Min(a, b) == IF a <= b THEN a ELSE b

RECURSIVE CopiesInSlots(_, _, _)
CopiesInSlots(copies, e, S) ==
    IF S = {} THEN 0
    ELSE LET s == CHOOSE x \in S : TRUE
         IN  copies[s][e] + CopiesInSlots(copies, e, S \ {s})

C1_SlotsInFlightUnchanged ==
    \A s \in Slots :
        EngineMayRead(s) =>
            /\ slotWrites'[s] = slotWrites[s]
            /\ ObjectCB'[s] = ObjectCB[s]
            /\ MaterialCB'[s] = MaterialCB[s]
            /\ PassCB'[s] = PassCB[s]
            /\ WavesVB'[s] = WavesVB[s]
            /\ CmdListAlloc'[s] = CmdListAlloc[s]

C2_StaysBlocked ==
    (pc \in AdvancePCs /\ completed' < Fence[cur]) => pc' \in AdvancePCs

C3_AdvanceReturns ==
    /\ (pc \in AdvancePCs) ~> (pc = "updateWater")
    /\ (pc # "idle") ~> (pc = "idle")

\* The host is blocked in the wait.
C3_Witness == pc = "wait" /\ ~eventSet /\ completed < Fence[cur]

C4_Selects == (pc = "idle" /\ pc' # "idle") => cur' = (cur + 1) % N

C4_BlocksIff ==
    (pc = "fenceCheck" /\ pc' # "fenceCheck") =>
        (pc' = "setEvent" <=> (Fence[cur] # 0 /\ completed < Fence[cur]))

C4_ReturnsOnlyWhen ==
    (pc \in AdvancePCs /\ pc' = "updateWater") =>
        (Fence[cur] = 0 \/ completed' >= Fence[cur])

C5_FirstRingNeverBlocks ==
    (pc \in {"setEvent", "wait"} \/ stalled) => frame > N

\* The N-th selection has returned while the GPU has consumed nothing.
C5_Witness ==
    /\ frame = N
    /\ pc = "updateWater"
    /\ Len(cmdQueue) = 2 * (N - 1)

C6_CheckPasses ==
    (pc = "fenceCheck" /\ pc' # "fenceCheck" /\ mCurrentFence - completed <= N - 1)
        => pc' = "updateWater"

\* C6: a fence check made with at most N-1 frames submitted and not completed
\* does not take the wait branch.
C6_NoStallWhenKeepingPace == [][C6_CheckPasses]_vars

\* A frame after the first N starts writing, never having waited, with N-1
\* frames still not completed.
C6_Witness ==
    /\ frame > N
    /\ pc = "updateWater"
    /\ ~stalled
    /\ mCurrentFence - completed = N - 1

\* C7: after p propagation passes an entity that is not mutated again has been
\* copied min(p, N) times, at most once per slot, and its dirty count is
\* N - min(p, N): the passes after the N-th copy nothing and leave it at 0.
C7_DirtyCountdown ==
    /\ \A k \in RitemIds :
          /\ CopiesInSlots(objCopies, k, Slots) = Min(objPasses, N)
          /\ mAllRitems[k].NumFramesDirty = N - Min(objPasses, N)
          /\ \A s \in Slots : objCopies[s][k] <= 1
    /\ \A n \in MaterialNames \ {"water"} :
          /\ CopiesInSlots(matCopies, n, Slots) = Min(matPasses, N)
          /\ mMaterials[n].NumFramesDirty = N - Min(matPasses, N)
          /\ \A s \in Slots : matCopies[s][n] <= 1

\* The (N+1)-th object and material passes have run.
C7_Witness == objPasses = N + 1 /\ matPasses = N + 1

C9_DirtyInRange ==
    /\ \A k \in RitemIds : mAllRitems[k].NumFramesDirty \in 0..N
    /\ \A n \in MaterialNames : mMaterials[n].NumFramesDirty \in 0..N

\* A pass has run over entities whose count was already 0.
C9_Witness ==
    /\ objPasses = N + 1
    /\ matPasses = N + 1
    /\ \A k \in RitemIds : mAllRitems[k].NumFramesDirty = 0

C10_ChangeMarksDirty ==
    \A n \in MaterialNames :
        mMaterials'[n].MatTransform # mMaterials[n].MatTransform =>
            mMaterials'[n].NumFramesDirty = N

\* C10: a step that changes a material's transform (the only transform the frame
\* loop changes) sets its dirty count to N, and from the end of Update to the Signal the current slot's
\* water entry is the water material's snapshot.
C10_WaterDirtyReset ==
    /\ [][C10_ChangeMarksDirty]_vars
    /\ [](pc \in SubmitPCs =>
              MaterialCB[cur][Materials["water"].MatCBIndex]
                  = MaterialConstantsOf("water"))

\* The water transform moved in a frame that reuses a slot, and is submitted.
C10_Witness ==
    /\ frame > N
    /\ pc = "drawExecute"
    /\ DeltaTime > 0
    /\ At(mMaterials["water"].MatTransform, 3, 0) # 0

\* C11: when a call of the wait in Update (CreateEventEx, SetEventOnCompletion
\* or WaitForSingleObject) has reported an error in a frame, the host is
\* terminated or still inside the wait: it never goes on to the steps of that
\* frame that write the slot's buffers, and no buffer of the slot is written.
C11_WaitErrorIsFatal ==
    (frame # 0 /\ waitErrorFrame = frame) => pc \in {"wait", "terminated"}

\* Fence stores recorded for slot s.
RetiresOf(s) == Cardinality({i \in 1..Len(markerLog) : markerLog[i].slot = s})

C13_RetireStep ==
    Fence' # Fence =>
        /\ submits[cur] = RetiresOf(cur) + 1
        /\ \A s \in Slots \ {cur} : Fence'[s] = Fence[s]
        /\ Fence'[cur] # 0
        /\ Fence'[cur] = mCurrentFence + 1
        /\ Fence'[cur] = mCurrentFence'
        /\ \A s \in Slots : Fence[s] < Fence'[cur]
        /\ \A i \in 1..Len(markerLog) : markerLog[i].value < Fence'[cur]

\* C13: a step that stores a marker stores it in the current slot only, after
\* the command list built in that slot for this frame was passed to
\* ExecuteCommandLists; the marker is the host counter incremented by exactly 1,
\* nonzero and above every marker stored before.  Whenever no submission is
\* waiting for its store, a slot's marker is 0 exactly if no command list
\* referencing it was ever submitted.
C13_RetireMonotonic ==
    /\ [][C13_RetireStep]_vars
    /\ [](pc # "drawFence" =>
              \A s \in Slots : (Fence[s] = 0 <=> submits[s] = 0))
    /\ [](\A s \in Slots : RetiresOf(s) <= submits[s] /\ submits[s] <= RetiresOf(s) + 1)

\* A slot has been submitted and retired for the second time.
C13_Witness ==
    /\ frame = N + 1
    /\ pc = "drawSignal"
    /\ submits[cur] = 2
    /\ RetiresOf(cur) = 2
    /\ \E s \in Slots : Fence[s] # 0 /\ Fence[s] < Fence[cur]

\* The steps of a frame in the order of Update and Draw; the two steps of the
\* wait are taken only by a frame whose fence check fails.
TickOrder(waited) ==
    << "select", "check" >>
    \o (IF waited THEN << "setEvent", "wait" >> ELSE << >>)
    \o << "waves", "objects", "materials", "pass", "record", "submit", "retire",
          "signal" >>

IsPrefix(a, b) == Len(a) <= Len(b) /\ \A i \in 1..Len(a) : a[i] = b[i]

Retired == \E i \in 1..Len(stepLog) : stepLog[i] = "retire"

C14_StepsAppend ==
    stepLog' # stepLog =>
        \/ /\ stepLog' = << "select" >>
           /\ stepLog = << >> \/ stepLog = TickOrder(stalled)
        \/ /\ Len(stepLog') = Len(stepLog) + 1
           /\ IsPrefix(stepLog, stepLog')

\* C14: the steps a frame has taken are always an initial part of: selection,
\* fence check (and wait), wave update, object propagation, material
\* propagation, pass block, submission, marker store, Signal; a frame starts
\* only when the frame before it has taken all of them; and a frame that has
\* started stores its marker unless the process is terminated.
C14_TickOrder ==
    /\ [](frame > 0 => IsPrefix(stepLog, TickOrder(stalled)))
    /\ [](frame = 0 => stepLog = << >>)
    /\ [][C14_StepsAppend]_vars
    /\ (frame > 0 /\ ~Retired) ~> (Retired \/ pc = "terminated")

\* A frame that had to wait has taken every step.
C14_Witness ==
    /\ frame > N
    /\ pc = "idle"
    /\ stalled
    /\ waitErrorFrame = 0
    /\ stepLog = TickOrder(TRUE)

\* C15: the ObjCBIndex values of the render items are pairwise different and
\* inside the object buffer the slots were built with, the MatCBIndex values of
\* the materials likewise inside the material buffer, every render item names a
\* registered material, and every element a propagation has filled is the
\* element of the entity that filled it.
C15_IndicesInRange ==
    /\ \A k \in RitemIds :
          /\ ObjCBElement(k) \in ObjCBIndices
          /\ ObjCBElement(k) < Len(RitemList)
          /\ RenderItems[k].Mat \in MaterialNames
          /\ Materials[RenderItems[k].Mat].MatCBIndex \in MatCBIndices
          /\ \A j \in RitemIds : j # k => ObjCBElement(j) # ObjCBElement(k)
    /\ \A n \in MaterialNames :
          /\ Materials[n].MatCBIndex \in MatCBIndices
          /\ \A o \in MaterialNames :
                 o # n => Materials[o].MatCBIndex # Materials[n].MatCBIndex
    /\ \A s \in Slots :
          /\ DOMAIN ObjectCB[s] = 0..(Len(RitemList) - 1)
          /\ DOMAIN MaterialCB[s] = 0..(Cardinality(MaterialNames) - 1)
          /\ \A i \in DOMAIN ObjectCB[s] :
                 ObjectCB[s][i] # 0 => ObjCBElement(ObjectCB[s][i]) = i

\* A propagation has filled the last element of the current slot's object and
\* material buffers.
C15_Witness ==
    /\ pc = "updateMainPassCB"
    /\ ObjectCB[cur][Len(RitemList) - 1] = Len(RitemList)
    /\ MaterialCB[cur][Cardinality(MaterialNames) - 1] # NoData

\* ------------------------------------------------- properties of the waves
Flat(grid) == \A c \in DOMAIN grid : grid[c] = 0

\* C16: a wave field that was never disturbed, with zero damping or not, has
\* all heights of both grids exactly 0 after any number of updates with any of
\* the elapsed times.
C16_FlatStaysFlat ==
    ~lastDisturb.applied => Flat(mWaves.current) /\ Flat(mWaves.previous)

\* The undamped field has taken simulation steps, the last update two at once.
C16_Witness ==
    /\ ~lastDisturb.applied
    /\ mWaves.damping = 0
    /\ waveSteps >= 3
    /\ lastElapsed = 60

C17_DisturbStep ==
    (lastDisturb' # lastDisturb /\ Flat(mWaves.current) /\ Flat(mWaves.previous)) =>
        /\ Flat(mWaves'.previous)
        /\ mWaves'.accumulated = mWaves.accumulated
        /\ \A i \in 0..(mWaves.m - 1), j \in 0..(mWaves.n - 1) :
              LET h == GridAt(mWaves', mWaves'.current, i, j)
                  distance == Abs(i - lastDisturb'.row) + Abs(j - lastDisturb'.col)
              IN  IF distance = 0 THEN h = lastDisturb'.magnitude
                  ELSE IF distance = 1 THEN h # 0 /\ Abs(h) < lastDisturb'.magnitude
                  ELSE h = 0

\* C17: a disturb of a flat field at a cell at least one cell from every border
\* gives the target the magnitude and each of its 4 direct neighbours a smaller
\* nonzero share; every other cell of the current grid and the whole previous
\* grid are still 0 right after it.
C17_DisturbLocality == [][C17_DisturbStep]_vars

\* A disturb next to two borders: the target's neighbours on the border are
\* raised, no update has stepped yet.
C17_Witness ==
    /\ lastDisturb.applied
    /\ lastDisturb.row = 1
    /\ lastDisturb.col = mWaves.n - 2
    /\ waveSteps = 0
    /\ GridAt(mWaves, mWaves.current, 0, mWaves.n - 2) # 0
    /\ GridAt(mWaves, mWaves.current, 1, mWaves.n - 1) # 0

C18_UpdateStep ==
    lastDisturb' = lastDisturb =>
        LET total == mWaves.accumulated + lastElapsed'
            taken == waveSteps' - waveSteps
        IN  /\ taken = total \div mWaves.dt
            /\ mWaves'.accumulated = total % mWaves.dt
            /\ taken = 0 =>
                  /\ mWaves'.current = mWaves.current
                  /\ mWaves'.previous = mWaves.previous
            /\ taken = 1 =>
                  /\ mWaves'.previous = mWaves.current
                  /\ mWaves'.current = WaveNextGrid(mWaves)
            /\ taken = 2 => mWaves'.previous = WaveNextGrid(mWaves)

C18_Scenario ==
    ( /\ mWaves.m = ScenarioGrid /\ mWaves.n = ScenarioGrid
      /\ mWaves.dx = One /\ mWaves.dt = 30
      /\ mWaves.speed = 4000 /\ mWaves.damping = 200
      /\ lastDisturb = [applied |-> TRUE, row |-> 4, col |-> 4, magnitude |-> One]
      /\ waveSteps = 1 )
    => /\ GridAt(mWaves, mWaves.previous, 4, 4) = One
       /\ GridAt(mWaves, mWaves.current, 4, 4) # 0

\* C18: an update takes as many simulation steps as the fixed dt fits into the
\* accumulated time, none while that is below dt, and keeps the rest; a step
\* makes previous the grid that was current and current the newly computed grid;
\* in the 8x8 scenario, after disturb(4,4,1.0) and one step, previous[4][4] is 1.0
\* and current[4][4] is not 0.
C18_UpdateRotates ==
    /\ [][C18_UpdateStep]_vars
    /\ []C18_Scenario

\* The scenario: disturb(4,4,1.0), then update(0.03) has taken the one step.
C18_Witness ==
    /\ mWaves.speed = 4000 /\ mWaves.damping = 200
    /\ lastDisturb = [applied |-> TRUE, row |-> 4, col |-> 4, magnitude |-> One]
    /\ waveSteps = 1
    /\ lastElapsed = 30
    /\ mWaves.accumulated = 0
    /\ GridAt(mWaves, mWaves.previous, 4, 4) = One

\* c*dt/dx > 1/sqrt(2), that is 2*(c*dt)^2 > dx^2
Unstable(w) ==
    LET cdt == (w.speed * w.dt) \div One
    IN  2 * cdt * cdt > w.dx * w.dx

\* The height the stable fields stay below: 10 times the disturbance.
HeightBound == 10 * lastDisturb.magnitude

C19_GrowsEveryStep ==
    ( /\ lastDisturb.applied /\ lastDisturb' = lastDisturb
      /\ Unstable(mWaves)
      /\ waveSteps' = waveSteps + 1 )
    => MaxAbs(mWaves'.current) > MaxAbs(mWaves.current)

Propagated ==
    /\ frame > 0
    /\ pc \in {"updateMainPassCB", "drawRecord", "drawExecute", "drawFence",
               "drawSignal", "idle"}

\* C20: after the passes of a frame the active slot's entry of every object
\* copied to it is the object's transposed world transform and its transposed
\* texture transform, and the entry of every material copied to it is the
\* material's diffuse colour, reflectance, roughness and transposed transform.
C20_FullSnapshot ==
    Propagated =>
        (   /\ \A k \in RitemIds :
                  ObjectCB[cur][ObjCBElement(k)] = k =>
                      LET entry == ObjectCBData(cur, ObjCBElement(k))
                      IN  /\ entry.World = XMMatrixTranspose(RenderItems[k].World)
                          /\ entry.TexTransform =
                                 XMMatrixTranspose(RenderItems[k].TexTransform)
            /\ \A n \in MaterialNames :
                  MaterialCB[cur][Materials[n].MatCBIndex] # NoData =>
                      LET entry == MaterialCB[cur][Materials[n].MatCBIndex]
                      IN  /\ entry.DiffuseAlbedo = Materials[n].DiffuseAlbedo
                          /\ entry.FresnelR0 = Materials[n].FresnelR0
                          /\ entry.Roughness = Materials[n].Roughness
                          /\ entry.MatTransform =
                                 XMMatrixTranspose(mMaterials[n].MatTransform) )

\* ------------------------------------------------ the effect of one pass
C21_ObjectPass ==
    objPasses' # objPasses =>
        /\ \A k \in RitemIds :
              IF mAllRitems[k].NumFramesDirty > 0
              THEN /\ mAllRitems'[k].NumFramesDirty = mAllRitems[k].NumFramesDirty - 1
                   /\ ObjectCB'[cur][RenderItems[k].ObjCBIndex] = k
                   /\ objCopies'[cur][k] = objCopies[cur][k] + 1
              ELSE /\ mAllRitems'[k] = mAllRitems[k]
                   /\ ObjectCB'[cur][RenderItems[k].ObjCBIndex] =
                          ObjectCB[cur][RenderItems[k].ObjCBIndex]
                   /\ objCopies'[cur][k] = objCopies[cur][k]
        /\ \A s \in Slots \ {cur} :
              ObjectCB'[s] = ObjectCB[s] /\ objCopies'[s] = objCopies[s]
        /\ (\A k \in RitemIds : mAllRitems[k].NumFramesDirty = 0) =>
              slotWrites' = slotWrites
        /\ UNCHANGED <<MaterialCB, PassCB, WavesVB, CmdListAlloc, mMaterials,
                       matCopies, Fence, mCurrFrameResourceIndex>>

C21_MaterialPass ==
    matPasses' # matPasses =>
        /\ \A n \in MaterialNames :
              IF mMaterials[n].NumFramesDirty > 0
              THEN /\ mMaterials'[n].NumFramesDirty = mMaterials[n].NumFramesDirty - 1
                   /\ mMaterials'[n].MatTransform = mMaterials[n].MatTransform
                   /\ MaterialCB'[cur][Materials[n].MatCBIndex] = MaterialConstantsOf(n)
                   /\ matCopies'[cur][n] = matCopies[cur][n] + 1
              ELSE /\ mMaterials'[n] = mMaterials[n]
                   /\ MaterialCB'[cur][Materials[n].MatCBIndex] =
                          MaterialCB[cur][Materials[n].MatCBIndex]
                   /\ matCopies'[cur][n] = matCopies[cur][n]
        /\ \A s \in Slots \ {cur} :
              MaterialCB'[s] = MaterialCB[s] /\ matCopies'[s] = matCopies[s]
        /\ UNCHANGED <<ObjectCB, PassCB, WavesVB, CmdListAlloc, mAllRitems,
                       objCopies, Fence, mCurrFrameResourceIndex>>

\* C21: a pass over the objects or the materials copies each entity whose dirty
\* count is above 0 to the entry at its own index of the active slot's buffer
\* and lowers its count by 1; the entries of entities whose count is 0, the
\* buffers of the other slots, the entities' parameters and every slot's fence
\* value are unchanged, and a pass over entities that are all at 0 writes
\* nothing.
C21_PropagationIsLocal ==
    /\ [][C21_ObjectPass]_vars
    /\ [][C21_MaterialPass]_vars

\* The passes of the frame after the first N have run: only the water material
\* was copied, into a slot that already held a copy of every entity.
C21_Witness ==
    /\ frame = N + 1
    /\ pc = "updateMainPassCB"
    /\ objCopies[cur][1] = 1
    /\ matCopies[cur]["water"] = 2
    /\ matCopies[cur]["grass"] = 1

\* --------------------------------------------------- the pass block
C22_PassStep ==
    (pc = "updateMainPassCB" /\ pc' # pc) =>
        /\ PassCB'[cur] = [TotalTime |-> TotalTime, DeltaTime |-> DeltaTime]
        /\ slotWrites'[cur] = slotWrites[cur] + 1
        /\ \A s \in Slots \ {cur} : PassCB'[s] = PassCB[s]

C22_AtSubmission ==
    submits' # submits =>
        /\ PassCB[cur] = [TotalTime |-> TotalTime, DeltaTime |-> DeltaTime]
        /\ \E i \in 1..Len(stepLog) : stepLog[i] = "pass"

\* C22: UpdateMainPassCB writes the pass block with the tick's times into the
\* active slot in every tick, whatever the dirty counts are, and when Draw
\* submits the command list the active slot's pass block is the one written in
\* that tick.
C22_PassBlockFresh ==
    /\ [][C22_PassStep]_vars
    /\ [][C22_AtSubmission]_vars

\* The frame that reuses the first slot has been submitted: no object is dirty
\* any more, and the slot's block holds this tick's times, not those of the
\* slot's first use.
C22_Witness ==
    /\ frame = N + 1
    /\ pc = "drawFence"
    /\ \A k \in RitemIds : mAllRitems[k].NumFramesDirty = 0
    /\ TotalTime = N + 1
    /\ PassCB[cur].TotalTime = N + 1

\* ------------------------------------------------- the wave vertex feed
C23_WaterStep ==
    (pc = "updateWater" /\ pc' # pc) =>
        /\ Len(WavesVB'[cur].y) = WavesVertexCount(mWaves')
        /\ \A i \in 0..(WavesVertexCount(mWaves') - 1) :
              WavesVBData(cur, i)'.Pos.y = mWaves'.current[i + 1]
        /\ WavesVB'[cur].solutionOfFrame = frame
        /\ wavesGeoVB' = {cur}
        /\ \A s \in Slots \ {cur} : WavesVB'[s] = WavesVB[s]

C23_AtSubmission ==
    submits' # submits =>
        /\ wavesGeoVB = {cur}
        /\ mCommandList = {cur}
        /\ WavesVB[cur].solutionOfFrame = frame

\* C23: UpdateWater copies the heights of all VertexCount() vertices of the
\* updated solution into the active slot's WavesVB and points the water
\* geometry at that buffer; when Draw submits, the water geometry and the command
\* list reference the active slot's buffer, filled in this tick, and no other
\* slot's.
C23_WaterUsesActiveSlot ==
    /\ [][C23_WaterStep]_vars
    /\ [][C23_AtSubmission]_vars

\* The frame that reuses a slot has been submitted while another slot still
\* holds the vertices of the frame before.
C23_Witness ==
    /\ frame = N + 1
    /\ pc = "drawFence"
    /\ wavesGeoVB = {cur}
    /\ WavesVB[(cur + N - 1) % N].solutionOfFrame = N

\* The last start-up call taken failed.
StartupFailed == stepLog # << >> /\ stepLog[Len(stepLog)] = "error"

C24_Ended ==
    StartupFailed =>
        /\ pc = "terminated"
        /\ frame = 0
        /\ \A s \in Slots : slotWrites[s] = 0 /\ submits[s] = 0
        /\ cmdQueue = << >>
        /\ \E i \in 1..Len(InitOrder) : stepLog = Append(SubSeq(InitOrder, 1, i - 1), "error")

C24_Step ==
    /\ pc = "terminated" => pc' = "terminated"
    /\ (pc \in InitSteps /\ pc' # pc) =>
           \/ pc' = InitStepAfter(pc) /\ stepLog' = Append(stepLog, pc)
           \/ pc' = "terminated" /\ StartupFailed'
    /\ frame' # frame => pc = "idle" /\ (frame = 0 => stepLog = InitOrder)

\* C24: a failure of any start-up call ends the program: the start-up is not
\* retried or continued, and no tick runs, no buffer is written and nothing is
\* submitted; the first tick begins only after every start-up call succeeded.
C24_StartupFailureIsFatal == [](C24_Ended) /\ [][C24_Step]_vars

C24_Witness ==
    /\ pc = "terminated"
    /\ frame = 0
    /\ stepLog = Append(SubSeq(InitOrder, 1, 12), "error")

\* The vertices copied into slot s.
WavesVBVertices(s) ==
    {WavesVBData(s, i) : i \in 0..(WavesVertexCount(mWaves) - 1)}

\* q is a quotient a / b of the fixed-point division, rounded down.
IsQuotient(q, a, b) == q * b <= a * One /\ a * One < (q + 1) * b

\* C25: every water vertex copied into a slot carries the texture coordinates
\* u = 0.5 + x / width and v = 0.5 - z / depth of its position, and both lie
\* in [0, 1].
C25_TexCoordsInUnitSquare ==
    \A s \in Slots : WavesVB[s] # NoData =>
        \A v \in WavesVBVertices(s) :
            /\ IsQuotient(v.TexC.x - One \div 2, v.Pos.x, WavesWidth(mWaves))
            /\ IsQuotient(One \div 2 - v.TexC.y, v.Pos.z, WavesDepth(mWaves))
            /\ v.TexC.x \in 0..One
            /\ v.TexC.y \in 0..One

C25_Witness ==
    /\ \A s \in Slots : WavesVB[s] # NoData
    /\ WavesVBData(cur, 0).Pos.x < 0
    /\ WavesVBData(cur, 0).TexC.x \in 0..(One \div 2 - 1)
    /\ WavesVBData(cur, 0).TexC.y \in 0..(One \div 2 - 1)
    /\ WavesVBData(cur, WavesVertexCount(mWaves) - 1).Pos.x > 0
    /\ WavesVBData(cur, WavesVertexCount(mWaves) - 1).TexC.x \in (One \div 2 + 1)..One
    /\ WavesVBData(cur, WavesVertexCount(mWaves) - 1).TexC.y \in (One \div 2 + 1)..One

\* A Signal with the value is in the command queue.
SignalEnqueued(value) ==
    \E i \in 1..Len(cmdQueue) : cmdQueue[i].op = "signal" /\ cmdQueue[i].value = value

\* The fence reached the slot's marker after the check read it as too small and
\* before the wait is registered.
ReachedBeforeRegistration == pc = "setEvent" /\ completed >= Fence[cur]

C26_Registers ==
    (ReachedBeforeRegistration /\ pc' # pc) =>
        /\ pc' = "wait"
        /\ waitReg' = Fence[cur]
        /\ eventSet'

C26_SignalOnItsWay ==
    pc \in {"setEvent", "wait"} =>
        /\ Fence[cur] # 0
        /\ Fence[cur] <= mCurrentFence
        /\ completed >= Fence[cur] \/ SignalEnqueued(Fence[cur])
        /\ pc = "wait" => waitReg = Fence[cur]

\* C26: when the fence reaches the selected slot's marker between the fence check
\* and the registration of the wait, the registration signals the event at once
\* and the selection returns; and whenever the host registers or waits, the
\* Signal of the marker it waits for was already enqueued (it is still in the
\* queue or the fence has reached it).
C26_NoLostWakeUp ==
    /\ [][C26_Registers]_vars
    /\ ReachedBeforeRegistration ~> (pc = "updateWater")
    /\ [](C26_SignalOnItsWay)

\* The fence reached the marker after the check and no Signal is left to come:
\* only the registration itself can signal the event.
C26_Witness ==
    /\ ReachedBeforeRegistration
    /\ frame > N
    /\ completed = mCurrentFence
    /\ cmdQueue = << >>

\* Frames whose command list was submitted and whose Signal the GPU has not
\* reached: the lists still queued, and the one the GPU took from the queue.
FramesInFlight ==
    Cardinality({i \in 1..Len(cmdQueue) : cmdQueue[i].op = "exec"})
        + (IF gpuBusy # {} THEN 1 ELSE 0)

Markers == {Fence[s] : s \in Slots}

C28_Selects ==
    (pc = "idle" /\ pc' # pc) => \A s \in Slots : Fence[cur'] <= Fence[s]

MaterialCopies(n) == CopiesInSlots(matCopies, n, Slots)

\* A pass of a tick copies the water material; it copies the other entities
\* only in the first N ticks.
C29_Pass ==
    /\ matPasses' # matPasses =>
          /\ mMaterials["water"].NumFramesDirty = N
          /\ mMaterials'["water"].NumFramesDirty = N - 1
          /\ matCopies'[cur]["water"] = matCopies[cur]["water"] + 1
          /\ \A n \in MaterialNames \ {"water"} :
                 matCopies'[cur][n] = matCopies[cur][n] + (IF frame <= N THEN 1 ELSE 0)
    /\ objPasses' # objPasses =>
          \A k \in RitemIds :
              objCopies'[cur][k] = objCopies[cur][k] + (IF frame <= N THEN 1 ELSE 0)

\* C29: the water material's dirty count is never 0: UpdateWater sets it to N in
\* every tick and the material pass lowers it to N-1, its value at the end of
\* every tick, so the water material is copied into the current slot in every
\* tick; every other material and every object is copied in the first N ticks,
\* once into each slot, and in no later tick.
C29_WaterAlwaysDirty ==
    /\ [](mMaterials["water"].NumFramesDirty \in {N - 1, N})
    /\ [](frame > 0 /\ pc = "idle" =>
              /\ mMaterials["water"].NumFramesDirty = N - 1
              /\ MaterialCopies("water") = frame
              /\ \A n \in MaterialNames \ {"water"} : MaterialCopies(n) = Min(frame, N)
              /\ \A k \in RitemIds : CopiesInSlots(objCopies, k, Slots) = Min(frame, N))
    /\ [][C29_Pass]_vars

\* The tick after the first N has ended: the water material was copied a second
\* time into the slot of the first tick, no other entity was.
C29_Witness ==
    /\ frame = N + 1
    /\ pc = "idle"
    /\ mMaterials["water"].NumFramesDirty = N - 1
    /\ matCopies[cur]["water"] = 2
    /\ \A n \in MaterialNames \ {"water"} : matCopies[cur][n] = 1
    /\ \A k \in RitemIds : objCopies[cur][k] = 1 /\ mAllRitems[k].NumFramesDirty = 0

\* Wave updates logged in the current frame.
WaveUpdatesInFrame ==
    Cardinality({i \in 1..Len(stepLog) : stepLog[i] = "waves"})

C30_Step ==
    /\ (pc = "updateWater" /\ pc' # pc) =>
           mWaves' = WavesUpdate(mWaves, DeltaTime * DtQuantum)
    /\ pc # "updateWater" => mWaves' = mWaves
    /\ lastDisturb' = lastDisturb

\* C30: the frame loop changes the wave field only by Update(gt.DeltaTime()),
\* once per tick in UpdateWater; Disturb is never called, so the field stays as
\* flat as the constructor left it and every slot's vertex buffer holds the
\* initial heights.
C30_OnlyUpdateNeverDisturb ==
    /\ [][C30_Step]_vars
    /\ [](lastDisturb = NoDisturb)
    /\ [](WaveUpdatesInFrame <= 1)
    /\ [](frame > 0 /\ pc \notin AdvancePCs \cup {"updateWater"} => WaveUpdatesInFrame = 1)
    /\ [](\A i \in 1..WavesVertexCount(mWaves) : mWaves.current[i] = 0)
    /\ [](\A s \in Slots : WavesVB[s] # NoData =>
              \A i \in 0..(WavesVertexCount(mWaves) - 1) : WavesVBData(s, i).Pos.y = 0)

\* Every slot was filled and the field took simulation steps, none disturbed.
C30_Witness ==
    /\ frame = N + 1
    /\ pc = "idle"
    /\ waveSteps > N
    /\ lastDisturb = NoDisturb
    /\ \A s \in Slots : WavesVB[s] # NoData /\ WavesVBData(s, 0).Pos.y = 0
====
